---- MODULE Spec2Model ----
(***************************************************************************)
(* A model of the gostatsd aggregation core (statsd/aggregator.go): the    *)
(* MetricAggregator with its four kind maps, the ingest workers            *)
(* (processQueue/receiveMetric), the flush computation, Reset with expiry, *)
(* and the Aggregate orchestrator that fans snapshots out to backend       *)
(* senders.                                                                *)
(*                                                                         *)
(* float64 values are modelled as exact rationals <<n, d>> (d > 0, lowest  *)
(* terms); time.Time and time.Duration are integers counted in seconds.    *)
(* A Go map is a function whose DOMAIN is the set of keys present.         *)
(***************************************************************************)
EXTENDS Integers, Sequences, FiniteSets, Bags, TLC

(***************************************************************************)
(* Bounds of the model.                                                    *)
(***************************************************************************)
\* The receiver hands over at most this many records.
MaxMetrics == 2
\* flush is called at most this many times.
MaxFlushes == 2
\* The wall clock runs from 0 to MaxTime seconds.
MaxTime == 2
\* The timer samples folded into one series.
MaxSamples == 5

(***************************************************************************)
(* float64 as exact rationals.                                             *)
(***************************************************************************)
Abs(i) == IF i < 0 THEN -i ELSE i

RECURSIVE GCD(_, _)
GCD(x, y) == IF y = 0 THEN x ELSE GCD(y, x % y)

\* The rational n/d (d # 0) in lowest terms with a positive denominator.
Rat(n, d) ==
    IF d = 1 THEN <<n, 1>>
    ELSE LET s == IF d < 0 THEN -1 ELSE 1
             g == GCD(Abs(n), Abs(d))
         IN  <<(s * n) \div g, (s * d) \div g>>

F(i) == <<i, 1>>
RAdd(x, y) == Rat(x[1] * y[2] + y[1] * x[2], x[2] * y[2])
RSub(x, y) == Rat(x[1] * y[2] - y[1] * x[2], x[2] * y[2])
RMul(x, y) == Rat(x[1] * y[1], x[2] * y[2])
RDiv(x, y) == Rat(x[1] * y[2], x[2] * y[1])
RLess(x, y) == x[1] * y[2] < y[1] * x[2]
RAbs(x) == <<Abs(x[1]), x[2]>>
\* math.Floor
Floor(x) == x[1] \div x[2]
\* Go's conversion of a float64 to an integer type truncates toward zero.
Trunc(x) == IF x[1] >= 0 THEN x[1] \div x[2] ELSE -((-x[1]) \div x[2])

\* round (aggregator.go): math.Floor(v + 0.5), as an integer.
round(v) == Floor(RAdd(v, <<1, 2>>))

(***************************************************************************)
(* The types package (types.Counter, types.Timer, ...), which the          *)
(* aggregator uses but whose source is not part of the files modelled      *)
(* here: constructors, zero values and copies follow the specification.    *)
(***************************************************************************)
\* time.Time{}: the zero time, long before any wall-clock reading.
ZeroTime == -1
\* The largest time.Duration; now.Sub(t) saturates to it.
MaxDuration == 1000000
\* now.Sub(ts)
TimeSub(now, ts) == IF ts = ZeroTime THEN MaxDuration ELSE now - ts

COUNTER == "c"
GAUGE == "g"
TIMER == "ms"
SET == "s"

\* m.Tags.String(): the canonical key of a tag collection; collections with
\* the same members give the same key.
TagsString(tags) == {tags[i] : i \in DOMAIN tags}

EmptyMap == <<>>
Put(map, k, v) == [x \in DOMAIN map \cup {k} |-> IF x = k THEN v ELSE map[x]]
Delete(map, k) == [x \in DOMAIN map \ {k} |-> map[x]]

\* The zero values of the record types (Go's T{}).
ZeroCounter == [Value |-> 0, PerSecond |-> F(0), Interval |-> 0, Timestamp |-> ZeroTime]
ZeroGauge == [Value |-> F(0), Interval |-> 0, Timestamp |-> ZeroTime]
ZeroTimer ==
    [Count |-> 0, PerSecond |-> F(0), Mean |-> F(0), Median |-> F(0),
     Min |-> F(0), Max |-> F(0), StdDev |-> [sqrt |-> F(0)], Sum |-> F(0),
     SumSquares |-> F(0), Values |-> <<>>, Percentiles |-> EmptyMap,
     Interval |-> 0, Timestamp |-> ZeroTime]
ZeroSet == [Values |-> EmptyMap, Interval |-> 0, Timestamp |-> ZeroTime]

NewCounter(now, interval, value) ==
    [ZeroCounter EXCEPT !.Value = value, !.Interval = interval, !.Timestamp = now]
NewGauge(now, interval, value) ==
    [ZeroGauge EXCEPT !.Value = value, !.Interval = interval, !.Timestamp = now]
NewTimer(now, interval, values) ==
    [ZeroTimer EXCEPT !.Values = values, !.Interval = interval, !.Timestamp = now]
NewSet(now, interval, values) ==
    [ZeroSet EXCEPT !.Values = values, !.Interval = interval, !.Timestamp = now]

\* timer.Percentiles.Set(key, value): one entry per field key.
PercentilesSet(p, key, value) == Put(p, key, value)

\* The series <<name, tagsKey>> of a nested kind map, as EachCounter,
\* EachTimer, EachGauge and EachSet visit them.
Series(kindMap) == UNION {{<<k, t>> : t \in DOMAIN kindMap[k]} : k \in DOMAIN kindMap}

\* kindMap[key][tagsKey] = rec, for a key that is present.
PutSeries(kindMap, key, tagsKey, rec) ==
    [kindMap EXCEPT ![key] = Put(@, tagsKey, rec)]

\* types.CopyCounters, CopyTimers, CopyGauges, CopySets: an independent deep
\* copy of a kind map (a new map holding equal records).
CopyKind(kindMap) == [k \in DOMAIN kindMap |-> [t \in DOMAIN kindMap[k] |-> kindMap[k][t]]]

(***************************************************************************)
(* receiveMetric: the fold of one record into the four kind maps M.        *)
(* int64 addition is modelled on unbounded integers (no wrap at 2^63).     *)
(***************************************************************************)
\* v, ok := kindMap[name]; _, ok := v[tagsKey]
Has(kindMap, name, tagsKey) ==
    name \in DOMAIN kindMap /\ tagsKey \in DOMAIN kindMap[name]

\* kindMap[name][tagsKey] = rec, making the inner map first when the name is
\* absent (lines 259-265, and alike for each kind).
Store(kindMap, name, tagsKey, rec) ==
    IF name \in DOMAIN kindMap
    THEN PutSeries(kindMap, name, tagsKey, rec)
    ELSE Put(kindMap, name, Put(EmptyMap, tagsKey, rec))

\* Faulty variants of receiveCounter, which the properties must tell from
\* it: one stores the increment in place of the sum, one advances the
\* timestamp at every fold.
receiveCounterStored(Counters, m, tagsKey, now, interval) ==
    Store(Counters, m.Name, tagsKey, NewCounter(now, interval, Trunc(m.Value)))

receiveCounterRefreshed(Counters, m, tagsKey, now, interval) ==
    IF Has(Counters, m.Name, tagsKey)
    THEN LET c == Counters[m.Name][tagsKey]
         IN  Store(Counters, m.Name, tagsKey,
                   [c EXCEPT !.Value = c.Value + Trunc(m.Value), !.Timestamp = now])
    ELSE Store(Counters, m.Name, tagsKey, NewCounter(now, interval, Trunc(m.Value)))

\* case Counter of receiveMetric (lines 253-266).
receiveCounter(Counters, m, tagsKey, now, interval) ==
    IF Has(Counters, m.Name, tagsKey)
    THEN LET c == Counters[m.Name][tagsKey]
         IN  Store(Counters, m.Name, tagsKey, [c EXCEPT !.Value = c.Value + Trunc(m.Value)])
    ELSE Store(Counters, m.Name, tagsKey, NewCounter(now, interval, Trunc(m.Value)))

receiveGauge(Gauges, m, tagsKey, now, interval) ==
    IF Has(Gauges, m.Name, tagsKey)
    THEN LET g == Gauges[m.Name][tagsKey]
         IN  Store(Gauges, m.Name, tagsKey, [g EXCEPT !.Value = m.Value])
    ELSE Store(Gauges, m.Name, tagsKey, NewGauge(now, interval, m.Value))

receiveTimer(Timers, m, tagsKey, now, interval) ==
    IF Has(Timers, m.Name, tagsKey)
    THEN LET t == Timers[m.Name][tagsKey]
         IN  Store(Timers, m.Name, tagsKey, [t EXCEPT !.Values = Append(t.Values, m.Value)])
    ELSE Store(Timers, m.Name, tagsKey, NewTimer(now, interval, <<m.Value>>))

receiveSet(Sets, m, tagsKey, now, interval) ==
    IF Has(Sets, m.Name, tagsKey)
    THEN LET s == Sets[m.Name][tagsKey]
             n == IF m.StringValue \in DOMAIN s.Values THEN s.Values[m.StringValue] + 1 ELSE 1
         IN  Store(Sets, m.Name, tagsKey, [s EXCEPT !.Values = Put(s.Values, m.StringValue, n)])
    ELSE Store(Sets, m.Name, tagsKey, NewSet(now, interval, Put(EmptyMap, m.StringValue, 1)))

\* The switch of receiveMetric; any other type is logged and changes no map.
receiveMetric(M, m, now, interval) ==
    LET tagsKey == TagsString(m.Tags)
    IN  CASE m.Type = COUNTER -> [M EXCEPT !.Counters = receiveCounter(@, m, tagsKey, now, interval)]
          [] m.Type = GAUGE -> [M EXCEPT !.Gauges = receiveGauge(@, m, tagsKey, now, interval)]
          [] m.Type = TIMER -> [M EXCEPT !.Timers = receiveTimer(@, m, tagsKey, now, interval)]
          [] m.Type = SET -> [M EXCEPT !.Sets = receiveSet(@, m, tagsKey, now, interval)]
          [] OTHER -> M

(***************************************************************************)
(* flush: the finalization of counters and timers and the num_stats tally. *)
(***************************************************************************)
\* sort.Float64s: ascending order.
RECURSIVE InsertSorted(_, _)
InsertSorted(sorted, v) ==
    IF sorted = <<>> THEN <<v>>
    ELSE IF RLess(v, Head(sorted)) THEN <<v>> \o sorted
    ELSE <<Head(sorted)>> \o InsertSorted(Tail(sorted), v)

\* A faulty variant of SortFloat64s: the samples stay as folded.
Unsorted(values) == values

RECURSIVE SortFloat64s(_)
SortFloat64s(values) ==
    IF values = <<>> THEN <<>> ELSE InsertSorted(SortFloat64s(Tail(values)), Head(values))

\* cumulativeValues: element i is values[0] + ... + values[i], each appended
\* as the sum of the next value and the last element.
RECURSIVE Cumulated(_, _)
Cumulated(acc, values) ==
    IF Len(acc) = Len(values) THEN acc
    ELSE Cumulated(Append(acc, RAdd(values[Len(acc) + 1], acc[Len(acc)])), values)

Cumulative(values) == IF values = <<>> THEN <<>> ELSE Cumulated(<<values[1]>>, values)

\* cumulSumSquaresValues
CumulativeSquares(values) ==
    Cumulative([i \in DOMAIN values |-> RMul(values[i], values[i])])

\* A Go slice index: s[i] for 0 <= i < len(s); any other index panics.
InRange(seq, i) == 0 <= i /\ i < Len(seq)
At(seq, i) == seq[i + 1]

\* A faulty variant of NumInThreshold: rounded down, not half-up.
NumInThresholdFloor(pct, count) == Floor(RMul(RDiv(RAbs(pct), F(100)), F(count)))

\* numInThreshold of a threshold for a timer of more than one sample.
NumInThreshold(pct, count) == round(RMul(RDiv(RAbs(pct), F(100)), F(count)))

\* fmt.Sprintf("%d", int(pct))
SPct(pct) == ToString(Trunc(pct))

\* One iteration of the loop over a.PercentThresholds (lines 104-133). acc
\* carries the loop's variables and the percentiles set so far; values is the
\* sorted sample array, cum and cumSq its prefix sums.
ThresholdEmit(acc, pct, values, cum, cumSq, n) ==
    LET count == Len(values)
        upper == RLess(F(0), pct)
        indices == IF upper THEN {n - 1} ELSE {count - n, count - 1, count - n - 1}
        boundary == IF count > 1
                    THEN IF upper THEN At(values, n - 1) ELSE At(values, count - n)
                    ELSE acc.thresholdBoundary
        sum == IF count > 1
               THEN IF upper THEN At(cum, n - 1)
                    ELSE RSub(At(cum, count - 1), At(cum, count - n - 1))
               ELSE acc.sum
        sumSquares == IF count > 1
                      THEN IF upper THEN At(cumSq, n - 1)
                           ELSE RSub(At(cumSq, count - 1), At(cumSq, count - n - 1))
                      ELSE acc.sumSquares
        mean == IF count > 1 THEN RDiv(sum, F(n)) ELSE acc.mean
        sPct == SPct(pct)
        p1 == PercentilesSet(acc.Percentiles, "count_" \o sPct, F(n))
        p2 == PercentilesSet(p1, "mean_" \o sPct, mean)
        p3 == PercentilesSet(p2, "sum_" \o sPct, sum)
        p4 == PercentilesSet(p3, "sum_squares_" \o sPct, sumSquares)
        p5 == PercentilesSet(p4, (IF upper THEN "upper_" ELSE "lower_") \o sPct, boundary)
    IN  IF acc.panic \/ (count > 1 /\ n = 0) THEN acc
        ELSE IF count > 1 /\ \E i \in indices : ~InRange(values, i)
             THEN [acc EXCEPT !.panic = TRUE, !.panicPct = pct]
             ELSE [acc EXCEPT !.Percentiles = p5, !.thresholdBoundary = boundary,
                              !.sum = sum, !.sumSquares = sumSquares, !.mean = mean]

\* A faulty variant of ThresholdStep: a threshold that selects no sample is
\* not skipped but takes one.
ThresholdStepNoSkip(acc, pct, values, cum, cumSq) ==
    ThresholdEmit(acc, pct, values, cum, cumSq,
                  IF Len(values) > 1
                  THEN (IF NumInThreshold(pct, Len(values)) = 0
                        THEN 1 ELSE NumInThreshold(pct, Len(values)))
                  ELSE Len(values))

\* numInThreshold is the number of samples, or for more than one sample the
\* rounded share of them (lines 105-107).
ThresholdStep(acc, pct, values, cum, cumSq) ==
    ThresholdEmit(acc, pct, values, cum, cumSq,
                  IF Len(values) > 1 THEN NumInThreshold(pct, Len(values)) ELSE Len(values))

RECURSIVE ThresholdLoop(_, _, _, _, _)
ThresholdLoop(acc, thresholds, values, cum, cumSq) ==
    IF thresholds = <<>> THEN acc
    ELSE ThresholdLoop(ThresholdStep(acc, Head(thresholds), values, cum, cumSq),
                       Tail(thresholds), values, cum, cumSq)

RECURSIVE SumSeq(_)
SumSeq(seq) == IF seq = <<>> THEN F(0) ELSE RAdd(Head(seq), SumSeq(Tail(seq)))

\* The callback of EachTimer for a timer with samples (lines 84-158): the
\* finalized record, or panic when an index is out of range.
FinalizeStats(timer, values, cum, cumSq, acc, flushSeconds) ==
    LET n == Len(values)
        count == F(n)
        sum == At(cum, n - 1)
        sumSquares == At(cumSq, n - 1)
        mean == RDiv(sum, count)
        sumOfDiffs == SumSeq([i \in 1..n |-> RMul(RSub(values[i], mean), RSub(values[i], mean))])
        mid == Floor(RDiv(count, F(2)))
        median == IF n % 2 = 0
                  THEN RDiv(RAdd(At(values, mid - 1), At(values, mid)), F(2))
                  ELSE At(values, mid)
    IN  [panic |-> acc.panic, panicPct |-> acc.panicPct,
         timer |-> [timer EXCEPT !.Values = values, !.Min = values[1], !.Max = values[n],
                                 !.Count = n,
                                 !.Percentiles = acc.Percentiles, !.Median = median,
                                 !.Mean = mean, !.StdDev = [sqrt |-> RDiv(sumOfDiffs, count)],
                                 !.Sum = sum, !.SumSquares = sumSquares,
                                 !.PerSecond = RDiv(count, flushSeconds)]]

\* The loop over the thresholds, from the sorted samples and their
\* cumulative sums (lines 99-133).
FinalizeSums(timer, values, cum, cumSq, thresholds, flushSeconds) ==
    FinalizeStats(timer, values, cum, cumSq,
                  ThresholdLoop([Percentiles |-> timer.Percentiles,
                                 sumSquares |-> RMul(values[1], values[1]),
                                 mean |-> values[1], sum |-> values[1],
                                 thresholdBoundary |-> values[Len(values)],
                                 panic |-> FALSE, panicPct |-> F(0)],
                                thresholds, values, cum, cumSq),
                  flushSeconds)

\* The cumulative sums of the sorted samples (lines 91-97).
FinalizeSorted(timer, values, thresholds, flushSeconds) ==
    FinalizeSums(timer, values, Cumulative(values), CumulativeSquares(values),
                 thresholds, flushSeconds)

FinalizeTimer(timer, thresholds, flushSeconds) ==
    FinalizeSorted(timer, SortFloat64s(timer.Values), thresholds, flushSeconds)

\* The callback of EachCounter in flush (lines 72-77).
flushCounters(Counters, flushSeconds) ==
    [k \in DOMAIN Counters |->
        [t \in DOMAIN Counters[k] |->
            [Counters[k][t] EXCEPT !.PerSecond = RDiv(F(Counters[k][t].Value), flushSeconds)]]]

\* The callback of EachTimer in flush over the timers series: each timer
\* with samples is finalized and stored back, a timer without samples is
\* left as it is (lines 159-162 change only the local copy). acc.panics
\* gathers the thresholds at which a finalization panics.
StoreTimer(acc, st, result) ==
    IF result.panic
    THEN [acc EXCEPT !.panics = @ \cup {[series |-> st, pct |-> result.panicPct]}]
    ELSE [acc EXCEPT !.Timers[st[1]][st[2]] = result.timer]

flushTimer(acc, st, thresholds, flushSeconds) ==
    IF Len(acc.Timers[st[1]][st[2]].Values) = 0 THEN acc
    ELSE StoreTimer(acc, st, FinalizeTimer(acc.Timers[st[1]][st[2]], thresholds, flushSeconds))

RECURSIVE flushTimers(_, _, _, _)
flushTimers(acc, series, thresholds, flushSeconds) ==
    IF series = {} THEN acc
    ELSE LET st == CHOOSE x \in series : TRUE
         IN  flushTimers(flushTimer(acc, st, thresholds, flushSeconds), series \ {st},
                         thresholds, flushSeconds)

RECURSIVE TimerStats(_, _)
TimerStats(Timers, series) ==
    IF series = {} THEN 0
    ELSE LET st == CHOOSE x \in series : TRUE
             timer == Timers[st[1]][st[2]]
         IN  (IF Len(timer.Values) > 0 THEN 9 + Cardinality(DOMAIN timer.Percentiles) ELSE 0)
             + TimerStats(Timers, series \ {st})

\* A faulty variant of NumStatsOf: a timer without samples counts as well.
NumStatsOfEveryTimer(M) ==
    2 * Cardinality(Series(M.Counters)) + Cardinality(Series(M.Gauges))
        + 9 * Cardinality(Series(M.Timers)) + Cardinality(Series(M.Sets))

\* numStats as flush tallies it, over the finalized maps.
NumStatsOf(M) ==
    2 * Cardinality(Series(M.Counters)) + Cardinality(Series(M.Gauges))
    + TimerStats(M.Timers, Series(M.Timers)) + Cardinality(Series(M.Sets))

BadLinesSeen == "statsd.bad_lines_seen"

\* The live maps after flush has finalized them in place, and where the
\* finalization panics.
FlushedMaps(M, timers, flushSeconds) ==
    [maps |-> [M EXCEPT !.Counters = flushCounters(@, flushSeconds),
                        !.Timers = timers.Timers],
     panics |-> timers.panics]

flushMaps(M, thresholds, flushSeconds) ==
    FlushedMaps(M, flushTimers([Timers |-> M.Timers, panics |-> {}], Series(M.Timers),
                               thresholds, flushSeconds),
                flushSeconds)

\* a.Stats after flush (lines 171-175); M is the finalized live maps.
flushStats(Stats, M, numStats, elapsed) ==
    [Stats EXCEPT !.NumStats = numStats,
                  !.ProcessingTime = elapsed,
                  !.BadLines = IF Has(M.Counters, BadLinesSeen, {})
                               THEN @ + M.Counters[BadLinesSeen][{}].Value ELSE @]

(***************************************************************************)
(* Reset and expiry.                                                       *)
(***************************************************************************)
\* A faulty variant of isExpired: a series expires at the expiry itself.
isExpiredAtExpiry(expiryInterval, now, ts) ==
    expiryInterval # 0 /\ TimeSub(now, ts) >= expiryInterval

isExpired(expiryInterval, now, ts) ==
    expiryInterval # 0 /\ TimeSub(now, ts) > expiryInterval

\* What one Each... walk of Reset leaves of a kind map: expired series are
\* deleted, a name is deleted when its last series goes, and every other
\* series is replaced by reset(old record).
Surviving(kindMap, name, expiryInterval, now) ==
    {t \in DOMAIN kindMap[name] : ~isExpired(expiryInterval, now, kindMap[name][t].Timestamp)}

\* A faulty variant of SurvivingNames: no name is deleted.
SurvivingNamesAll(kindMap, expiryInterval, now) == DOMAIN kindMap

SurvivingNames(kindMap, expiryInterval, now) ==
    {k \in DOMAIN kindMap : Surviving(kindMap, k, expiryInterval, now) # {} \/ DOMAIN kindMap[k] = {}}

\* A faulty variant of ResetCounter: the counter keeps its value.
ResetCounterKept(counter) == counter

ResetCounter(counter) == [ZeroCounter EXCEPT !.Interval = counter.Interval]
ResetTimer(timer) == [ZeroTimer EXCEPT !.Interval = timer.Interval]
ResetSet(set) == [ZeroSet EXCEPT !.Interval = set.Interval]
\* No reset for gauges, they keep the last value until expiration.
ResetGauge(gauge) == gauge

ResetCounters(Counters, expiryInterval, now) ==
    [k \in SurvivingNames(Counters, expiryInterval, now) |->
        [t \in Surviving(Counters, k, expiryInterval, now) |-> ResetCounter(Counters[k][t])]]

ResetTimers(Timers, expiryInterval, now) ==
    [k \in SurvivingNames(Timers, expiryInterval, now) |->
        [t \in Surviving(Timers, k, expiryInterval, now) |-> ResetTimer(Timers[k][t])]]

ResetSets(Sets, expiryInterval, now) ==
    [k \in SurvivingNames(Sets, expiryInterval, now) |->
        [t \in Surviving(Sets, k, expiryInterval, now) |-> ResetSet(Sets[k][t])]]

ResetGauges(Gauges, expiryInterval, now) ==
    [k \in SurvivingNames(Gauges, expiryInterval, now) |->
        [t \in Surviving(Gauges, k, expiryInterval, now) |-> ResetGauge(Gauges[k][t])]]

ResetMaps(M, expiryInterval, now) ==
    [Counters |-> ResetCounters(M.Counters, expiryInterval, now),
     Timers |-> ResetTimers(M.Timers, expiryInterval, now),
     Gauges |-> ResetGauges(M.Gauges, expiryInterval, now),
     Sets |-> ResetSets(M.Sets, expiryInterval, now)]

(***************************************************************************)
(* The state.                                                              *)
(***************************************************************************)
VARIABLES
    a,            \* the MetricAggregator's fields other than its maps and lock
    mutex,        \* the holder of a's sync.Mutex, or Free
    heap,         \* the map objects: heap[Live] are a's four kind maps, every
                  \* other address holds the copies one flush made
    MetricQueue,  \* the channel of records between the receiver and the workers
    feed,         \* the records the caller or receiver has still to hand over
    horizon,      \* the last clock reading of the run
    workers,      \* the processQueue goroutines
    orch,         \* the Aggregate goroutine (or the caller of flush and Reset)
    tasks,        \* the send goroutines spawned and not yet finished
    clock,        \* the wall clock, time.Now()
    crashed,      \* the process has died of a panic
    hist          \* history: what was folded, flushed and reset so far

vars == <<a, mutex, heap, MetricQueue, feed, horizon, workers, orch, tasks, clock, crashed, hist>>

Free == <<>>
Orchestrator == <<"Aggregate">>
Worker(w) == <<"processQueue", w>>
Live == 0

\* The ingress queue's capacity.
maxQueueSize == 2

Metric(name, type, value, stringValue, tags) ==
    [Name |-> name, Type |-> type, Value |-> value, StringValue |-> stringValue, Tags |-> tags]

\* a.Counters, a.Timers, a.Gauges, a.Sets
Maps == heap[Live]

\* What a reader of a MetricMap struct finds: its num_stats and the maps it
\* refers to.
Deref(metrics) ==
    [NumStats |-> metrics.NumStats,
     Counters |-> heap[metrics.Counters].Counters,
     Timers |-> heap[metrics.Timers].Timers,
     Gauges |-> heap[metrics.Gauges].Gauges,
     Sets |-> heap[metrics.Sets].Sets]

\* The addresses a MetricMap struct refers to.
Refs(metrics) == {metrics.Counters, metrics.Timers, metrics.Gauges, metrics.Sets}

\* The garbage collector: only the objects still referred to are kept.
Collect(h, roots) == [x \in (DOMAIN h) \cap ({Live} \cup roots) |-> h[x]]

\* A fresh address.
NewAddr == CHOOSE i \in 1..Cardinality(DOMAIN heap) :
              i \notin DOMAIN heap /\ \A j \in 1..(i - 1) : j \in DOMAIN heap

EmptyMaps == [Counters |-> EmptyMap, Timers |-> EmptyMap, Gauges |-> EmptyMap, Sets |-> EmptyMap]

ZeroStats ==
    [BadLines |-> 0, LastMessage |-> ZeroTime, LastFlush |-> ZeroTime,
     LastFlushError |-> ZeroTime, NumStats |-> 0, ProcessingTime |-> 0]

NoSnapshot == [NumStats |-> 0, Counters |-> EmptyMap, Timers |-> EmptyMap,
               Gauges |-> EmptyMap, Sets |-> EmptyMap]

\* History kept beside the program's state:
\*   flushes, resets  the calls of flush and Reset that have returned
\*   delivered        the records taken off the queue
\*   sinceFlush       per counter series, the sum folded since the last flush
\*   window           per counter series the sum folded since the last Reset,
\*                    as added (trunc) and as received (exact); per timer
\*                    series the bag of samples folded since the last Reset
\*   latest           per gauge series, the folded record delivered last
\*   lastFold         per series, the time of its most recent fold
\*   born             per series in the state, the time of the fold that made
\*                    its record, or ZeroTime when Reset made the record
\*   resetNow         the argument of the last Reset
\*   last             the last snapshot as flush returned it, and the window
\*                    it was taken of
\*   panics           where the last flush panicked
\*   sends            per tick and sender, the calls of SendMetrics so far
\*   received         the tick and sender of the result received last
\*   stamps           per tick and sender, the field stamped for its result
NoHistory ==
    [flushes |-> 0, resets |-> 0, delivered |-> 0, sinceFlush |-> EmptyMap,
     window |-> [Counters |-> EmptyMap, Timers |-> EmptyMap],
     latest |-> EmptyMap, lastFold |-> EmptyMap, born |-> EmptyMap, resetNow |-> ZeroTime,
     last |-> [view |-> NoSnapshot, window |-> [Counters |-> EmptyMap, Timers |-> EmptyMap]],
     panics |-> {}, sends |-> EmptyMap, received |-> <<>>, stamps |-> EmptyMap]

\* NewMetricAggregator
NewMetricAggregator(senders, percentThresholds, flushInterval, expiryInterval, maxWorkers) ==
    /\ a = [ExpiryInterval |-> expiryInterval, FlushInterval |-> flushInterval,
            MaxWorkers |-> maxWorkers, PercentThresholds |-> percentThresholds,
            Senders |-> senders, Stats |-> ZeroStats, NumStats |-> 0]
    /\ mutex = Free
    /\ heap = [x \in {Live} |-> EmptyMaps]
    /\ MetricQueue = <<>>
    /\ tasks = {}
    /\ clock = 0
    /\ crashed = FALSE
    /\ hist = NoHistory

(***************************************************************************)
(* The three methods, as they act on the aggregator under its lock.        *)
(***************************************************************************)
\* The map of one kind.
KindMap(M, type) ==
    CASE type = COUNTER -> M.Counters
      [] type = GAUGE -> M.Gauges
      [] type = TIMER -> M.Timers
      [] type = SET -> M.Sets

\* Every series in the maps M, with its kind.
AllSeries(M) ==
    UNION {{<<type, k[1], k[2]>> : k \in Series(KindMap(M, type))} :
             type \in {COUNTER, GAUGE, TIMER, SET}}

\* The history of a fold of record m, delivered as number seq, at time now.
Folded(m, seq, now) ==
    LET k == <<m.Name, TagsString(m.Tags)>>
        old == IF k \in DOMAIN hist.window.Counters
               THEN hist.window.Counters[k] ELSE [trunc |-> 0, exact |-> F(0)]
        known == m.Type \in {COUNTER, GAUGE, TIMER, SET}
    IN  [hist EXCEPT
            !.sinceFlush = IF m.Type = COUNTER
                           THEN Put(@, k, (IF k \in DOMAIN @ THEN @[k] ELSE 0) + Trunc(m.Value))
                           ELSE @,
            !.window.Counters = IF m.Type = COUNTER
                                THEN Put(@, k, [trunc |-> old.trunc + Trunc(m.Value),
                                                exact |-> RAdd(old.exact, m.Value)])
                                ELSE @,
            !.window.Timers = IF m.Type = TIMER
                              THEN Put(@, k, (IF k \in DOMAIN @ THEN @[k] ELSE EmptyBag)
                                                (+) SetToBag({m.Value}))
                              ELSE @,
            !.latest = IF m.Type = GAUGE /\ (k \in DOMAIN @ => @[k].seq < seq)
                       THEN Put(@, k, [seq |-> seq, value |-> m.Value])
                       ELSE @,
            !.lastFold = IF known THEN Put(@, <<m.Type, k[1], k[2]>>, now) ELSE @,
            !.born = IF known /\ <<m.Type, k[1], k[2]>> \notin DOMAIN @
                     THEN Put(@, <<m.Type, k[1], k[2]>>, now) ELSE @]

\* receiveMetric(m, now) between a.Lock() and the deferred a.Unlock().
receiveMetricBody(m, now, seq) ==
    /\ heap' = [heap EXCEPT ![Live] = receiveMetric(@, m, now, a.FlushInterval)]
    /\ a' = [a EXCEPT !.Stats.LastMessage = clock]
    /\ hist' = Folded(m, seq, now)

\* A faulty variant of flushReturn: the MetricMap refers to the live maps.
flushReturnLive(numStats, elapsed, flushInterval, addr) ==
    [NumStats |-> numStats, ProcessingTime |-> elapsed, FlushInterval |-> flushInterval,
     Counters |-> Live, Timers |-> Live, Gauges |-> Live, Sets |-> Live]

\* The MetricMap flush returns (lines 177-185); addr holds the copies made by
\* CopyCounters, CopyTimers, CopyGauges and CopySets.
flushReturn(numStats, elapsed, flushInterval, addr) ==
    [NumStats |-> numStats, ProcessingTime |-> elapsed, FlushInterval |-> flushInterval,
     Counters |-> addr, Timers |-> addr, Gauges |-> addr, Sets |-> addr]

\* A snapshot by value: num_stats and the four maps.
Snapshot(numStats, M) ==
    [NumStats |-> numStats, Counters |-> M.Counters, Timers |-> M.Timers,
     Gauges |-> M.Gauges, Sets |-> M.Sets]

\* flush between a.Lock() and the deferred a.Unlock(): finalization in
\* place, the statistics, the copies. A panic of the finalization ends the
\* process. keep: the addresses still referred to.
flushFinalized(keep, fin, sites, numStats, addr) ==
    IF sites # {}
    THEN /\ crashed' = TRUE
         /\ hist' = [hist EXCEPT !.panics = sites]
         /\ UNCHANGED <<a, heap>>
    ELSE /\ heap' = [x \in {Live, addr} \cup ((DOMAIN heap) \cap keep) |->
                        IF x = Live THEN fin
                        ELSE IF x = addr
                             THEN [Counters |-> CopyKind(fin.Counters),
                                   Timers |-> CopyKind(fin.Timers),
                                   Gauges |-> CopyKind(fin.Gauges),
                                   Sets |-> CopyKind(fin.Sets)]
                             ELSE heap[x]]
         /\ a' = [a EXCEPT !.Stats = flushStats(@, fin, numStats, 0)]
         /\ hist' = [hist EXCEPT !.flushes = @ + 1,
                                 !.sinceFlush = EmptyMap,
                                 !.last = [view |-> Snapshot(numStats, fin),
                                           window |-> hist.window]]
         /\ UNCHANGED crashed

flushOf(keep, finalized) ==
    flushFinalized(keep, finalized.maps, finalized.panics, NumStatsOf(finalized.maps), NewAddr)

flushBody(keep) ==
    flushOf(keep, flushMaps(Maps, a.PercentThresholds, F(a.FlushInterval)))

\* What flush returns to its caller: the MetricMap and, beside it, the
\* snapshot by value. The finalization happens within one reading of the
\* clock: ProcessingTime is 0.
Returned(deadline) ==
    [pc |-> "reset", deadline |-> deadline,
     flushed |-> flushReturn(hist'.last.view.NumStats, 0, a.FlushInterval, NewAddr),
     taken |-> hist'.last.view]

\* Reset(now) between a.Lock() and the deferred a.Unlock().
ResetBody(now) ==
    /\ a' = [a EXCEPT !.NumStats = 0]
    /\ heap' = [heap EXCEPT ![Live] = ResetMaps(@, a.ExpiryInterval, now)]
    /\ hist' = [hist EXCEPT !.resets = @ + 1,
                            !.resetNow = now,
                            !.born = [x \in AllSeries(heap'[Live]) |->
                                         IF x[1] = GAUGE THEN @[x] ELSE ZeroTime],
                            !.window = [Counters |-> EmptyMap, Timers |-> EmptyMap]]

(***************************************************************************)
(* The receiver and the ingest workers.                                    *)
(***************************************************************************)
\* The receiver's handler (statsd.go): aggregator.MetricQueue <- metric.
Enqueue(m) ==
    /\ ~crashed
    /\ feed.budget > 0 /\ feed.left[m] > 0
    /\ Len(MetricQueue) < maxQueueSize
    /\ MetricQueue' = Append(MetricQueue, m)
    /\ feed' = [budget |-> feed.budget - 1, left |-> [feed.left EXCEPT ![m] = @ - 1]]
    /\ UNCHANGED <<a, mutex, heap, horizon, workers, orch, tasks, clock, crashed, hist>>

\* processQueue: a record is taken off the queue and time.Now() is read for
\* the call of receiveMetric.
Dequeue(w) ==
    /\ ~crashed
    /\ workers[w].pc = "recv"
    /\ MetricQueue # <<>>
    /\ workers' = [workers EXCEPT ![w] = [pc |-> "lock", m |-> Head(MetricQueue), now |-> clock,
                                          seq |-> hist.delivered + 1]]
    /\ MetricQueue' = Tail(MetricQueue)
    /\ hist' = [hist EXCEPT !.delivered = @ + 1]
    /\ UNCHANGED <<a, mutex, heap, feed, horizon, orch, tasks, clock, crashed>>

\* A faulty variant of WorkerLock: the worker goes on without the lock.
WorkerUnlocked(w) ==
    /\ ~crashed
    /\ workers[w].pc = "lock"
    /\ mutex' = Worker(w)
    /\ workers' = [workers EXCEPT ![w].pc = "fold"]
    /\ UNCHANGED <<a, heap, MetricQueue, feed, horizon, orch, tasks, clock, crashed, hist>>

\* receiveMetric: a.Lock()
WorkerLock(w) ==
    /\ ~crashed
    /\ workers[w].pc = "lock"
    /\ mutex = Free
    /\ mutex' = Worker(w)
    /\ workers' = [workers EXCEPT ![w].pc = "fold"]
    /\ UNCHANGED <<a, heap, MetricQueue, feed, horizon, orch, tasks, clock, crashed, hist>>

\* receiveMetric: the switch, a.Stats.LastMessage and the deferred a.Unlock().
ReceiveMetric(w) ==
    /\ ~crashed
    /\ workers[w].pc = "fold"
    /\ receiveMetricBody(workers[w].m, workers[w].now, workers[w].seq)
    /\ mutex' = Free
    /\ workers' = [workers EXCEPT ![w] = [pc |-> "recv"]]
    /\ UNCHANGED <<MetricQueue, feed, horizon, orch, tasks, clock, crashed>>

(***************************************************************************)
(* The orchestrator: Aggregate's select loop.                              *)
(***************************************************************************)
\* The addresses the send goroutines refer to.
TaskRefs(ts) == UNION {Refs(t.flushed) : t \in ts}

\* case <-flushTimer.C
TimerFire ==
    /\ ~crashed
    /\ orch.pc = "select"
    /\ clock >= orch.deadline
    /\ hist.flushes < MaxFlushes
    /\ orch' = [orch EXCEPT !.pc = "flush"]
    /\ UNCHANGED <<a, mutex, heap, MetricQueue, feed, horizon, workers, tasks, clock, crashed, hist>>

\* flush: a.Lock()
FlushLock ==
    /\ ~crashed
    /\ orch.pc = "flush"
    /\ mutex = Free
    /\ mutex' = Orchestrator
    /\ orch' = [orch EXCEPT !.pc = "flushing"]
    /\ UNCHANGED <<a, heap, MetricQueue, feed, horizon, workers, tasks, clock, crashed, hist>>

\* flush under the lock, and its return to Aggregate.
Flush ==
    /\ ~crashed
    /\ orch.pc = "flushing"
    /\ flushBody(TaskRefs(tasks))
    /\ IF crashed'
       THEN UNCHANGED <<mutex, orch>>
       ELSE /\ mutex' = Free
            /\ orch' = Returned(orch.deadline)
    /\ UNCHANGED <<MetricQueue, feed, horizon, workers, tasks, clock>>

\* a.Reset(time.Now()): the argument is read before Reset takes the lock.
ResetCall ==
    /\ ~crashed
    /\ orch.pc = "reset"
    /\ orch' = [pc |-> "resetLock", deadline |-> orch.deadline, flushed |-> orch.flushed,
                taken |-> orch.taken, now |-> clock]
    /\ UNCHANGED <<a, mutex, heap, MetricQueue, feed, horizon, workers, tasks, clock, crashed, hist>>

\* Reset: a.Lock()
ResetLock ==
    /\ ~crashed
    /\ orch.pc = "resetLock"
    /\ mutex = Free
    /\ mutex' = Orchestrator
    /\ orch' = [orch EXCEPT !.pc = "resetting"]
    /\ UNCHANGED <<a, heap, MetricQueue, feed, horizon, workers, tasks, clock, crashed, hist>>

\* Reset under the lock, and the deferred a.Unlock().
Reset ==
    /\ ~crashed
    /\ orch.pc = "resetting"
    /\ ResetBody(orch.now)
    /\ mutex' = Free
    /\ orch' = [pc |-> "dispatch", deadline |-> orch.deadline, flushed |-> orch.flushed,
                taken |-> orch.taken]
    /\ UNCHANGED <<MetricQueue, feed, horizon, workers, tasks, clock, crashed>>

\* A faulty variant of Dispatch: only the first sender is started.
DispatchFirst ==
    /\ ~crashed
    /\ orch.pc = "dispatch"
    /\ tasks' = tasks \cup {[i |-> 1, s |-> a.Senders[1], flushed |-> orch.flushed,
                             taken |-> orch.taken, tick |-> hist.flushes,
                             pc |-> "send", read |-> NoSnapshot, err |-> FALSE]}
    /\ orch' = [pc |-> "select", deadline |-> clock + a.FlushInterval]
    /\ heap' = Collect(heap, TaskRefs(tasks'))
    /\ UNCHANGED <<a, mutex, MetricQueue, feed, horizon, workers, clock, crashed, hist>>

\* One goroutine per sender is started with the snapshot, and the flush
\* timer is made anew (lines 347-354).
Dispatch ==
    /\ ~crashed
    /\ orch.pc = "dispatch"
    /\ tasks' = tasks \cup {[i |-> i, s |-> a.Senders[i], flushed |-> orch.flushed,
                             taken |-> orch.taken, tick |-> hist.flushes,
                             pc |-> "send", read |-> NoSnapshot, err |-> FALSE] :
                            i \in DOMAIN a.Senders}
    /\ orch' = [pc |-> "select", deadline |-> clock + a.FlushInterval]
    /\ heap' = Collect(heap, TaskRefs(tasks'))
    /\ UNCHANGED <<a, mutex, MetricQueue, feed, horizon, workers, clock, crashed, hist>>

\* s.SendMetrics(flushed) in a send goroutine: the backend reads the maps the
\* snapshot refers to and returns an error or nil.
SendMetrics(t) ==
    /\ ~crashed
    /\ t \in tasks /\ t.pc = "send"
    /\ \E err \in BOOLEAN :
          tasks' = (tasks \ {t}) \cup {[t EXCEPT !.pc = "result", !.err = err,
                                                 !.read = Deref(t.flushed)]}
    /\ hist' = [hist EXCEPT !.sends = Put(@, <<t.tick, t.i>>,
                                          (IF <<t.tick, t.i>> \in DOMAIN @
                                           THEN @[<<t.tick, t.i>>] ELSE 0) + 1)]
    /\ UNCHANGED <<a, mutex, heap, MetricQueue, feed, horizon, workers, orch, clock, crashed>>

\* flushChan <- result meets case flushResult := <-flushChan; the send
\* goroutine ends.
ReceiveResult(t) ==
    /\ ~crashed
    /\ orch.pc = "select"
    /\ t \in tasks /\ t.pc = "result"
    /\ tasks' = tasks \ {t}
    /\ orch' = [pc |-> "resultLock", deadline |-> orch.deadline, flushResult |-> t.err]
    /\ heap' = Collect(heap, TaskRefs(tasks'))
    /\ hist' = [hist EXCEPT !.received = <<t.tick, t.i>>]
    /\ UNCHANGED <<a, mutex, MetricQueue, feed, horizon, workers, clock, crashed>>

\* case flushResult: a.Lock()
ResultLock ==
    /\ ~crashed
    /\ orch.pc = "resultLock"
    /\ mutex = Free
    /\ mutex' = Orchestrator
    /\ orch' = [orch EXCEPT !.pc = "stamping"]
    /\ UNCHANGED <<a, heap, MetricQueue, feed, horizon, workers, tasks, clock, crashed, hist>>

\* A faulty variant of Stamp: the lock is not released.
StampLocked ==
    /\ ~crashed
    /\ orch.pc = "stamping"
    /\ a' = IF orch.flushResult
            THEN [a EXCEPT !.Stats.LastFlushError = clock]
            ELSE [a EXCEPT !.Stats.LastFlush = clock]
    /\ orch' = [pc |-> "select", deadline |-> orch.deadline]
    /\ hist' = [hist EXCEPT !.stamps = Put(@, hist.received,
                                           IF orch.flushResult THEN "LastFlushError"
                                           ELSE "LastFlush")]
    /\ UNCHANGED <<mutex, heap, MetricQueue, feed, horizon, workers, tasks, clock, crashed>>

\* LastFlushError or LastFlush is stamped, then a.Unlock().
Stamp ==
    /\ ~crashed
    /\ orch.pc = "stamping"
    /\ a' = IF orch.flushResult
            THEN [a EXCEPT !.Stats.LastFlushError = clock]
            ELSE [a EXCEPT !.Stats.LastFlush = clock]
    /\ mutex' = Free
    /\ orch' = [pc |-> "select", deadline |-> orch.deadline]
    /\ hist' = [hist EXCEPT !.stamps = Put(@, hist.received,
                                           IF orch.flushResult THEN "LastFlushError"
                                           ELSE "LastFlush")]
    /\ UNCHANGED <<heap, MetricQueue, feed, horizon, workers, tasks, clock, crashed>>

\* The wall clock advances.
Tick ==
    /\ ~crashed
    /\ clock < horizon
    /\ clock' = clock + 1
    /\ UNCHANGED <<a, mutex, heap, MetricQueue, feed, horizon, workers, orch, tasks, crashed, hist>>

Next ==
    \/ \E m \in DOMAIN feed.left : Enqueue(m)
    \/ \E w \in DOMAIN workers : Dequeue(w) \/ WorkerLock(w) \/ ReceiveMetric(w)
    \/ TimerFire \/ FlushLock \/ Flush
    \/ ResetCall \/ ResetLock \/ Reset
    \/ Dispatch
    \/ \E t \in tasks : SendMetrics(t) \/ ReceiveResult(t)
    \/ ResultLock \/ Stamp
    \/ Tick

(***************************************************************************)
(* The methods called one at a time, as the package's tests call them:     *)
(* receiveMetric(m, now), then flush() and Reset(now) in the order of      *)
(* Aggregate's loop, each call running to its end.                         *)
(***************************************************************************)
CallReceiveMetric(m) ==
    /\ ~crashed
    /\ feed.budget > 0 /\ feed.left[m] > 0
    /\ feed' = [budget |-> feed.budget - 1, left |-> [feed.left EXCEPT ![m] = @ - 1]]
    /\ receiveMetricBody(m, clock, hist.delivered + 1)
    /\ UNCHANGED <<mutex, MetricQueue, horizon, workers, orch, tasks, clock, crashed>>

CallFlush ==
    /\ ~crashed
    /\ orch.pc = "select"
    /\ hist.flushes < MaxFlushes
    /\ flushBody({})
    /\ IF crashed'
       THEN UNCHANGED orch
       ELSE orch' = Returned(orch.deadline)
    /\ UNCHANGED <<mutex, MetricQueue, feed, horizon, workers, tasks, clock>>

CallReset ==
    /\ ~crashed
    /\ orch.pc = "reset"
    /\ ResetBody(clock)
    /\ orch' = [orch EXCEPT !.pc = "select"]
    /\ UNCHANGED <<mutex, MetricQueue, feed, horizon, workers, tasks, clock, crashed>>

NextCalls ==
    \/ \E m \in DOMAIN feed.left : CallReceiveMetric(m)
    \/ CallFlush
    \/ CallReset
    \/ Tick

(***************************************************************************)
(* The inputs.                                                             *)
(***************************************************************************)
Hits == Metric("hits", COUNTER, F(1), "", <<>>)
HitsAndHalf == Metric("hits", COUNTER, <<3, 2>>, "", <<>>)
HitsTagged == Metric("hits", COUNTER, F(2), "", <<"t">>)
BadLines == Metric(BadLinesSeen, COUNTER, F(1), "", <<>>)
Load1 == Metric("load", GAUGE, F(1), "", <<>>)
Load2 == Metric("load", GAUGE, F(2), "", <<>>)
Rt(v) == Metric("rt", TIMER, v, "", <<>>)
User(x) == Metric("users", SET, F(0), x, <<>>)
Unknown == Metric("hist", "h", F(1), "", <<>>)

\* Any budget records out of the set records, in any order.
AnyOf(records, budget) == [budget |-> budget, left |-> [m \in records |-> budget]]

\* Any budget records out of the set records, each at most once.
EachOnce(records, budget) == [budget |-> budget, left |-> [m \in records |-> 1]]

\* Aggregate up to its select loop: the workers started, the timer armed.
Aggregate ==
    /\ workers = [w \in 1..a.MaxWorkers |-> [pc |-> "recv"]]
    /\ orch = [pc |-> "select", deadline |-> a.FlushInterval]

\* The aggregator for direct calls: no goroutine runs.
Direct ==
    /\ workers = <<>>
    /\ orch = [pc |-> "select", deadline |-> a.FlushInterval]

PipelineRecords == {Hits, Load1, Load2}

\* The pipeline: two workers, one backend, one flush interval of time.
Init ==
    /\ NewMetricAggregator(<<"graphite">>, <<F(90)>>, 1, 0, 2)
    /\ Aggregate
    /\ horizon = a.FlushInterval
    /\ feed = AnyOf(PipelineRecords, MaxMetrics)

Spec == Init /\ [][Next]_vars

WindowRecords == {Hits, HitsAndHalf, BadLines, Load1, Rt(F(3)), User("x"), Unknown}

\* Direct calls over records of every kind, with and without expiry.
InitWindow ==
    /\ \E config \in {<<1, 0>>, <<2, 1>>} :
          NewMetricAggregator(<<"graphite">>, <<F(90)>>, config[1], config[2], 1)
    /\ Direct
    /\ horizon = MaxTime
    /\ feed = AnyOf(WindowRecords, MaxMetrics)

SpecWindow == InitWindow /\ [][NextCalls]_vars

\* The pipeline over two ticks: one worker, one backend.
InitTicks ==
    /\ NewMetricAggregator(<<"graphite">>, <<F(90)>>, 1, 0, 1)
    /\ Aggregate
    /\ horizon = MaxFlushes * a.FlushInterval
    /\ feed = AnyOf({Hits}, MaxMetrics)

SpecTicks == InitTicks /\ [][Next]_vars

\* The pipeline over two ticks with two backends.
InitSenders ==
    /\ NewMetricAggregator(<<"graphite", "datadog">>, <<F(90)>>, 1, 0, 1)
    /\ Aggregate
    /\ horizon = MaxFlushes * a.FlushInterval
    /\ feed = AnyOf({Hits}, 1)

SpecSenders == InitSenders /\ [][Next]_vars

\* The steps of the Aggregate goroutine.
OrchestratorStep ==
    \/ TimerFire \/ FlushLock \/ Flush
    \/ ResetCall \/ ResetLock \/ Reset
    \/ Dispatch
    \/ \E t \in tasks : ReceiveResult(t)
    \/ ResultLock \/ Stamp

\* The steps of one processQueue goroutine.
WorkerStep(w) == Dequeue(w) \/ WorkerLock(w) \/ ReceiveMetric(w)

\* The scheduler runs every goroutine that can take a step, select takes a
\* case that stays ready, and time passes. Nothing is assumed of the
\* receiver, nor of a backend's SendMetrics, which may never return.
Fairness ==
    /\ WF_vars(Tick)
    /\ WF_vars(OrchestratorStep)
    /\ WF_vars(TimerFire)
    /\ WF_vars(\E t \in tasks : ReceiveResult(t))
    /\ WF_vars(\E w \in DOMAIN workers : WorkerStep(w))

\* The pipeline over two ticks, one worker and one backend, fairly scheduled.
SpecLive == InitTicks /\ [][Next]_vars /\ Fairness

\* Direct calls over two counter series under an expiry of two seconds.
InitExpiry ==
    /\ NewMetricAggregator(<<"graphite">>, <<F(90)>>, 1, 2, 1)
    /\ Direct
    /\ horizon = a.ExpiryInterval + 1
    /\ feed = AnyOf({Hits, HitsTagged}, MaxMetrics + 1)

SpecExpiry == InitExpiry /\ [][NextCalls]_vars

\* Direct calls over records of every kind, the counter with a second tag
\* set of its name, under an expiry of two seconds.
InitNames ==
    /\ NewMetricAggregator(<<"graphite">>, <<F(90)>>, 1, 2, 1)
    /\ Direct
    /\ horizon = a.ExpiryInterval + 1
    /\ feed = EachOnce({Hits, HitsTagged, Load1, Rt(F(3)), User("x")}, MaxMetrics + 1)

SpecNames == InitNames /\ [][NextCalls]_vars

\* The timer samples 1..MaxSamples, each folded at most once, in any order.
Samples == [budget |-> MaxSamples, left |-> [m \in {Rt(F(v)) : v \in 1..MaxSamples} |-> 1]]

\* Direct calls over one timer series, under thresholds of either sign.
InitTimer ==
    /\ \E percentThresholds \in {<<F(90), F(-10), F(100)>>, <<F(-100)>>} :
          NewMetricAggregator(<<"graphite">>, percentThresholds, 1, 0, 1)
    /\ Direct
    /\ horizon = a.FlushInterval
    /\ feed = Samples

SpecTimer == InitTimer /\ [][NextCalls]_vars

\* The timer samples below MaxSamples, each folded at most once, in any
\* order.
FewerSamples ==
    [budget |-> MaxSamples - 1, left |-> [m \in {Rt(F(v)) : v \in 1..(MaxSamples - 1)} |-> 1]]

\* Direct calls over one timer series, under thresholds that select a part
\* of the samples.
InitThresholds ==
    /\ \E percentThresholds \in {<<F(20), F(50)>>, <<F(50), F(-50), F(20)>>, <<F(-90)>>} :
          NewMetricAggregator(<<"graphite">>, percentThresholds, 1, 0, 1)
    /\ Direct
    /\ horizon = a.FlushInterval
    /\ feed = FewerSamples

SpecThresholds == InitThresholds /\ [][NextCalls]_vars

(***************************************************************************)
(* The backends' numeric sanitization. A float64 is NaN, an infinity or a  *)
(* finite value; of the finite values, the largest magnitude is            *)
(* math.MaxFloat64.                                                        *)
(***************************************************************************)
NaN == [class |-> "NaN", sign |-> 0, value |-> F(0)]
Inf(sign) == [class |-> "Inf", sign |-> sign, value |-> F(0)]
MaxFloat64 == [class |-> "MaxFloat64", sign |-> 1, value |-> F(0)]
Finite(value) == [class |-> "finite", sign |-> 0, value |-> value]
Neg(f) ==
    CASE f.class = "finite" -> Finite(RSub(F(0), f.value))
      [] f.class = "NaN" -> f
      [] OTHER -> [f EXCEPT !.sign = 0 - f.sign]

IsNaN(f) == f.class = "NaN"
IsInf(f, sign) == f.class = "Inf" /\ (sign = 0 \/ f.sign = sign)

\* A faulty variant of coerceToNumeric: NaN becomes 0.
coerceToNumericZero(x) ==
    IF IsNaN(x) THEN Finite(F(0))
    ELSE IF IsInf(x, 1) THEN MaxFloat64
    ELSE IF IsInf(x, -1) THEN Neg(MaxFloat64)
    ELSE x

\* coerceToNumeric
coerceToNumeric(x) ==
    IF IsNaN(x) THEN Finite(F(-1))
    ELSE IF IsInf(x, 1) THEN MaxFloat64
    ELSE IF IsInf(x, -1) THEN Neg(MaxFloat64)
    ELSE x

\* The arguments of TestCoerceToNumeric's table.
TestArgs ==
    {NaN, Inf(1), Inf(-1), Finite(F(0)), Finite(F(12345)), Finite(F(-12345)),
     MaxFloat64, Neg(MaxFloat64)}

\* The number of values one serialization coerces.
MaxValues == 3

\* A backend's serializer coerces one more value x of what it writes.
Serialize(x) ==
    /\ Len(orch.args) < MaxValues
    /\ orch' = [orch EXCEPT !.args = Append(@, x), !.got = Append(@, coerceToNumeric(x))]
    /\ UNCHANGED <<a, mutex, heap, MetricQueue, feed, horizon, workers, tasks, clock, crashed, hist>>

NextCoerce == \E x \in TestArgs : Serialize(x)

InitCoerce ==
    /\ NewMetricAggregator(<<"datadog">>, <<F(90)>>, 1, 0, 1)
    /\ workers = <<>>
    /\ orch = [pc |-> "serialize", args |-> <<>>, got |-> <<>>]
    /\ horizon = 0
    /\ feed = AnyOf({}, 0)

SpecCoerce == InitCoerce /\ [][NextCoerce]_vars

(***************************************************************************)
(* The properties.                                                         *)
(***************************************************************************)
\* The record of series k in a map of one kind.
RecordOf(kindMap, k) == kindMap[k[1]][k[2]]

\* Aggregate is between flush's return and the end of the Reset that
\* follows it.
ResetPending == orch.pc \in {"reset", "resetLock", "resetting"}

\* C1: no fold is discarded before it has appeared in a snapshot: whenever
\* no Reset is pending, every counter series folded since the last flush
\* is in the state and holds the sum of the increments folded since that
\* flush, so that the very next flush reflects them.
C1_NoFoldDiscarded ==
    ~ResetPending =>
        \A k \in DOMAIN hist.sinceFlush :
            /\ k \in Series(Maps.Counters)
            /\ RecordOf(Maps.Counters, k).Value = hist.sinceFlush[k]

\* C2: folds of one series happen in the order of delivery: every gauge
\* holds the value of the record that was delivered last among the records
\* folded into it.
C2_FoldOrderIsDeliveryOrder ==
    \A k \in DOMAIN hist.latest :
        /\ k \in Series(Maps.Gauges)
        /\ RecordOf(Maps.Gauges, k).Value = hist.latest[k].value

\* C10: a snapshot flush has returned is never changed: as long as
\* Aggregate or a send goroutine holds it, its num_stats and the maps it
\* refers to are what flush made them, whatever was folded, flushed or
\* reset since; and what a backend has read is the snapshot.
C10_SnapshotImmutable ==
    /\ "flushed" \in DOMAIN orch => Deref(orch.flushed) = orch.taken
    /\ \A t \in tasks :
          /\ Deref(t.flushed) = t.taken
          /\ t.pc = "result" => t.read = t.taken

\* A backend has read the snapshot of the first tick after a later fold,
\* the Reset of its tick and a second flush.
C10_Witness ==
    \E t \in tasks :
        /\ t.pc = "result" /\ t.tick = 1
        /\ hist.flushes = 2 /\ hist.resets >= 1
        /\ t.taken.Counters # EmptyMap
        /\ Maps # [Counters |-> t.taken.Counters, Timers |-> t.taken.Timers,
                   Gauges |-> t.taken.Gauges, Sets |-> t.taken.Sets]

\* The increments folded into counter series k in the window win: the sum
\* as receiveMetric adds it and the sum of the values as received.
Increments(win, k) ==
    IF k \in DOMAIN win.Counters THEN win.Counters[k] ELSE [trunc |-> 0, exact |-> F(0)]

\* C3: the snapshot of a flush carries, for a counter series that received
\* the increments v1..vk since the last Reset, value = int64(v1) + ... +
\* int64(vk), each increment truncated toward zero as it is added, and
\* per_second = value / flush_interval_seconds.
C3_CounterSumOfTruncated ==
    hist.flushes > 0 =>
        /\ DOMAIN hist.last.window.Counters \subseteq Series(hist.last.view.Counters)
        /\ \A k \in Series(hist.last.view.Counters) :
              LET counter == RecordOf(hist.last.view.Counters, k)
              IN  /\ counter.Value = Increments(hist.last.window, k).trunc
                  /\ RMul(counter.PerSecond, F(a.FlushInterval)) = F(counter.Value)

\* C3 as the specification states it: value = v1 + ... + vk and
\* per_second = (v1 + ... + vk) / flush_interval_seconds.
C3_CounterSumOfReceived ==
    hist.flushes > 0 =>
        \A k \in Series(hist.last.view.Counters) :
            LET counter == RecordOf(hist.last.view.Counters, k)
            IN  /\ F(counter.Value) = Increments(hist.last.window, k).exact
                /\ RMul(counter.PerSecond, F(a.FlushInterval)) = Increments(hist.last.window, k).exact

\* A flush over a two-second interval has returned a counter that received
\* the increments 1 and 1.5.
C3_Witness ==
    /\ hist.flushes > 0
    /\ a.FlushInterval = 2
    /\ <<"hits", {}>> \in DOMAIN hist.last.window.Counters
    /\ hist.last.window.Counters[<<"hits", {}>>] = [trunc |-> 2, exact |-> <<5, 2>>]

\* A step is a call of Reset.
IsReset == hist'.resets = hist.resets + 1

\* C4: Reset leaves every counter, timer and set it does not evict with
\* value 0, no samples, no members, and the interval it had; and every
\* gauge it does not evict as it was.
C4_ResetSurvivors ==
    [][IsReset =>
        LET pre == heap[Live]
            post == heap'[Live]
        IN  /\ \A k \in Series(post.Counters) :
                  /\ k \in Series(pre.Counters)
                  /\ RecordOf(post.Counters, k).Value = 0
                  /\ RecordOf(post.Counters, k).Interval = RecordOf(pre.Counters, k).Interval
            /\ \A k \in Series(post.Timers) :
                  /\ k \in Series(pre.Timers)
                  /\ RecordOf(post.Timers, k).Values = <<>>
                  /\ RecordOf(post.Timers, k).Interval = RecordOf(pre.Timers, k).Interval
            /\ \A k \in Series(post.Sets) :
                  /\ k \in Series(pre.Sets)
                  /\ RecordOf(post.Sets, k).Values = EmptyMap
                  /\ RecordOf(post.Sets, k).Interval = RecordOf(pre.Sets, k).Interval
            /\ \A k \in Series(post.Gauges) :
                  /\ k \in Series(pre.Gauges)
                  /\ RecordOf(post.Gauges, k) = RecordOf(pre.Gauges, k)]_vars

\* Reset has just returned after a flush that reported a counter of value
\* above 0 and a gauge; the counter is in the state with value 0 and the
\* interval of two seconds, the gauge with its value.
C4_Witness ==
    /\ hist.resets = 1 /\ hist.flushes = 1 /\ orch.pc = "select"
    /\ \E k \in Series(Maps.Counters) \cap Series(hist.last.view.Counters) :
          /\ RecordOf(hist.last.view.Counters, k).Value > 0
          /\ RecordOf(Maps.Counters, k).Value = 0
          /\ RecordOf(Maps.Counters, k).Interval = 2
          /\ RecordOf(Maps.Counters, k).Timestamp = ZeroTime
    /\ \E k \in Series(Maps.Gauges) : RecordOf(Maps.Gauges, k).Value # F(0)

\* The record of the series x of AllSeries(M).
RecordIn(M, x) == RecordOf(KindMap(M, x[1]), <<x[2], x[3]>>)

\* C5: Reset(now) with an expiry above 0 removes every series whose
\* timestamp satisfies now - timestamp > expiry and keeps every series
\* with now - timestamp <= expiry; with expiry 0 it removes no series.
C5_Expiry ==
    [][IsReset =>
        \A x \in AllSeries(heap[Live]) :
            LET age == TimeSub(hist'.resetNow, RecordIn(heap[Live], x).Timestamp)
            IN  IF a.ExpiryInterval > 0 /\ age > a.ExpiryInterval
                THEN x \notin AllSeries(heap'[Live])
                ELSE x \in AllSeries(heap'[Live])]_vars

\* Reset(2) under an expiry of one second has removed a series folded at 0
\* and kept one folded at 1.
C5_Witness ==
    /\ hist.resets = 1 /\ hist.resetNow = 2 /\ a.ExpiryInterval = 1 /\ orch.pc = "select"
    /\ \E x \in DOMAIN hist.lastFold : hist.lastFold[x] = 0 /\ x \notin AllSeries(Maps)
    /\ \E x \in AllSeries(Maps) : hist.lastFold[x] = 1

\* C6: a record's timestamp is the time of the fold that created it, and
\* later folds do not advance it: Reset(now) evicts exactly the series for
\* which more than the expiry has elapsed since the record was made (a
\* record made by an earlier Reset has the zero time and is always past
\* the expiry). With two counters created at 0, one folded again at 1, an
\* expiry of 2 and Reset at 3, both counters are removed.
C6_EvictedByCreation ==
    [][IsReset =>
        \A x \in AllSeries(heap[Live]) :
            /\ RecordIn(heap[Live], x).Timestamp = hist.born[x]
            /\ x \notin AllSeries(heap'[Live])
                  <=> (a.ExpiryInterval > 0
                       /\ TimeSub(hist'.resetNow, hist.born[x]) > a.ExpiryInterval)]_vars

\* C6 as the specification states it: Reset(now) evicts a series only when
\* more than the expiry has elapsed since its most recent fold.
C6_EvictedOnlyWhenIdle ==
    [][IsReset =>
        \A x \in AllSeries(heap[Live]) :
            x \notin AllSeries(heap'[Live])
                => hist'.resetNow - hist.lastFold[x] > a.ExpiryInterval]_vars

\* The scenario: two counters created at 0, one of them folded again at 1,
\* expiry 2, and the first Reset at 3 has left no counter.
C6_Witness ==
    /\ a.ExpiryInterval = 2 /\ hist.resets = 1 /\ hist.resetNow = 3
    /\ <<COUNTER, "hits", {}>> \in DOMAIN hist.lastFold
    /\ <<COUNTER, "hits", {"t"}>> \in DOMAIN hist.lastFold
    /\ hist.lastFold[<<COUNTER, "hits", {}>>] = 1
    /\ hist.lastFold[<<COUNTER, "hits", {"t"}>>] = 0
    /\ Series(Maps.Counters) = {}

\* The sum of weigh(v) over the samples of a bag, where weigh is 1 for the
\* samples themselves and 2 for their squares.
RECURSIVE Total(_, _, _)
Total(bag, samples, power) ==
    IF samples = {} THEN F(0)
    ELSE LET v == CHOOSE x \in samples : TRUE
             term == IF power = 2 THEN RMul(v, v) ELSE v
         IN  RAdd(RMul(F(bag[v]), term), Total(bag, samples \ {v}, power))

Least(samples) == CHOOSE v \in samples : \A w \in samples : ~RLess(w, v)
Greatest(samples) == CHOOSE v \in samples : \A w \in samples : ~RLess(v, w)

\* The timer series every sample of the inputs belongs to.
RtSeries == <<"rt", {}>>

\* The key of a per-threshold field holds the value.
Emits(timer, key, value) ==
    key \in DOMAIN timer.Percentiles /\ timer.Percentiles[key] = value

\* C7: the snapshot of a flush carries, for a timer series that received
\* the samples v1..vn (n >= 1) since the last Reset, in any order, count =
\* n, min and max the smallest and the largest sample, sum = v1 + ... + vn,
\* sum_squares = v1^2 + ... + vn^2 and mean * n = sum.
C7_TimerAggregates ==
    hist.flushes > 0 =>
        \A k \in DOMAIN hist.last.window.Timers :
            LET bag == hist.last.window.Timers[k]
                n == BagCardinality(bag)
                timer == RecordOf(hist.last.view.Timers, k)
            IN  /\ k \in Series(hist.last.view.Timers)
                /\ timer.Count = n
                /\ timer.Min = Least(BagToSet(bag))
                /\ timer.Max = Greatest(BagToSet(bag))
                /\ timer.Sum = Total(bag, BagToSet(bag), 1)
                /\ timer.SumSquares = Total(bag, BagToSet(bag), 2)
                /\ RMul(timer.Mean, F(n)) = timer.Sum

\* A flush has just returned a timer of at least three samples of which 1
\* is none.
C7_Witness ==
    /\ hist.flushes > 0 /\ orch.pc = "reset"
    /\ RtSeries \in DOMAIN hist.last.window.Timers
    /\ BagCardinality(hist.last.window.Timers[RtSeries]) >= 3
    /\ RecordOf(Maps.Timers, RtSeries).Min # F(1)

\* The thresholds P with |P| = 100.
FullThresholds ==
    {a.PercentThresholds[i] : i \in DOMAIN a.PercentThresholds}
        \cap {F(100), F(-100)}

\* C8: under a threshold P with |P| = 100, flush of a timer of n >= 1
\* samples does not fail and emits count_P = n, sum_P = the sum of all
\* samples, upper_100 = max for P = 100 and lower_-100 = min for P = -100.
C8_FullThreshold ==
    /\ \A site \in hist.panics : RAbs(site.pct) # F(100)
    /\ hist.flushes > 0 =>
          \A k \in DOMAIN hist.last.window.Timers, pct \in FullThresholds :
              LET bag == hist.last.window.Timers[k]
                  timer == RecordOf(hist.last.view.Timers, k)
              IN  /\ Emits(timer, "count_" \o SPct(pct), F(BagCardinality(bag)))
                  /\ Emits(timer, "sum_" \o SPct(pct), Total(bag, BagToSet(bag), 1))
                  /\ pct = F(100) => Emits(timer, "upper_100", Greatest(BagToSet(bag)))
                  /\ pct = F(-100) => Emits(timer, "lower_-100", Least(BagToSet(bag)))

\* The window of the last flush held exactly the samples 1, 2, 3, 4, 5 and
\* -10 is a threshold.
FiveSamples ==
    /\ hist.flushes > 0
    /\ F(-10) \in {a.PercentThresholds[i] : i \in DOMAIN a.PercentThresholds}
    /\ RtSeries \in DOMAIN hist.last.window.Timers
    /\ hist.last.window.Timers[RtSeries] = SetToBag({F(v) : v \in 1..5})

\* C9: for the samples {1,2,3,4,5} and the threshold -10, flush takes
\* n = 1 and emits the one largest sample: lower_-10 = 5, count_-10 = 1,
\* sum_-10 = 5, sum_squares_-10 = 25 and mean_-10 = 5.
C9_LowerTenIsTop ==
    FiveSamples =>
        LET timer == RecordOf(hist.last.view.Timers, RtSeries)
        IN  /\ Emits(timer, "lower_-10", F(5))
            /\ Emits(timer, "count_-10", F(1))
            /\ Emits(timer, "sum_-10", F(5))
            /\ Emits(timer, "sum_squares_-10", F(25))
            /\ Emits(timer, "mean_-10", F(5))

\* C9 as the specification states it: lower_-10 = 1, count_-10 = 1,
\* sum_-10 = 1, sum_squares_-10 = 1 and mean_-10 = 1.
C9_LowerTenIsBottom ==
    FiveSamples =>
        LET timer == RecordOf(hist.last.view.Timers, RtSeries)
        IN  /\ Emits(timer, "lower_-10", F(1))
            /\ Emits(timer, "count_-10", F(1))
            /\ Emits(timer, "sum_-10", F(1))
            /\ Emits(timer, "sum_squares_-10", F(1))
            /\ Emits(timer, "mean_-10", F(1))

\* flush has just returned the timer of the samples 1..5 under the
\* thresholds 90, -10 and 100.
C9_Witness ==
    /\ FiveSamples /\ orch.pc = "reset"
    /\ RecordOf(Maps.Timers, RtSeries).Count = 5

\* A step is a call of receiveMetric with the record m.
IsFoldOf(m) == m \in DOMAIN feed.left /\ feed'.left[m] = feed.left[m] - 1

\* C11: a fold of a record whose kind is none of COUNTER, GAUGE, TIMER and
\* SET changes nothing of the aggregator: the four kind maps and the
\* statistics are after the fold what they were before it, and so is the
\* num_stats a flush would compute.
C11_UnknownKindChangesNothing ==
    [][IsFoldOf(Unknown) =>
          /\ heap'[Live] = heap[Live]
          /\ a'.Stats = a.Stats
          /\ NumStatsOf(heap'[Live]) = NumStatsOf(heap[Live])]_vars

\* The goroutines of tick n have been started.
Dispatched(n) ==
    \/ n < hist.flushes
    \/ n = hist.flushes /\ orch.pc \notin {"reset", "resetLock", "resetting", "dispatch"}

\* The calls of SendMetrics made so far for sender i with the snapshot of
\* tick n.
Sends(n, i) == IF <<n, i>> \in DOMAIN hist.sends THEN hist.sends[<<n, i>>] ELSE 0

\* A step in which Aggregate starts the send goroutines of a tick.
IsDispatch == orch.pc = "dispatch" /\ orch'.pc = "select"

\* A step of the orchestrator's case for a send result.
IsResultCase == orch'.pc \in {"resultLock", "stamping"} \/ orch.pc = "stamping"

\* C12: on every tick flush has returned before Reset starts; every
\* registered sender is started exactly once, with the snapshot of its tick,
\* and is called at most once for it, whatever its result was; and the
\* handling of a send result, failed or not, leaves the flush timer as it
\* is, so that the timer's case can be taken as soon as the timer is due.
C12_TickOrder ==
    /\ [](/\ hist.resets = hist.flushes - (IF ResetPending THEN 1 ELSE 0)
          /\ \A n \in 1..hist.flushes : \A i \in DOMAIN a.Senders :
                LET waiting == {t \in tasks : t.tick = n /\ t.i = i /\ t.pc = "send"}
                IN  Sends(n, i) + Cardinality(waiting) = IF Dispatched(n) THEN 1 ELSE 0
          /\ DOMAIN hist.sends \subseteq (1..hist.flushes) \X (DOMAIN a.Senders)
          /\ (orch.pc = "select" /\ clock >= orch.deadline /\ hist.flushes < MaxFlushes
                 /\ ~crashed) => ENABLED TimerFire)
    /\ [][/\ IsDispatch =>
                \A i \in DOMAIN a.Senders :
                    \E t \in tasks' \ tasks :
                        /\ t.i = i /\ t.s = a.Senders[i] /\ t.tick = hist.flushes
                        /\ t.pc = "send"
                        /\ t.taken = hist.last.view /\ Deref(t.flushed) = hist.last.view
          /\ IsResultCase => orch'.deadline = orch.deadline
          /\ \A t \in tasks' \ tasks : t.pc = "send" => IsDispatch]_vars

\* The second tick's flush, Reset and dispatch are done while the first
\* tick's send to one backend has failed and been stamped and its send to
\* the other backend has succeeded.
C12_Witness ==
    /\ hist.flushes = 2 /\ Dispatched(2)
    /\ Sends(1, 1) = 1 /\ Sends(1, 2) = 1
    /\ a.Stats.LastFlushError # ZeroTime /\ a.Stats.LastFlush # ZeroTime
    /\ a.Stats.LastFlushError < orch.deadline - a.FlushInterval
    /\ \E t \in tasks : t.tick = 2 /\ t.pc = "send"

C14_NoEmptyName ==
    \A type \in {COUNTER, GAUGE, TIMER, SET} :
        \A name \in DOMAIN KindMap(Maps, type) :
            DOMAIN KindMap(Maps, type)[name] # {}

\* A Reset has evicted the only series of the gauge "load", and with it the
\* name, and one of the two series of the counter "hits", whose name stays
\* with the other.
C14_Witness ==
    /\ hist.resets = 2
    /\ <<GAUGE, "load", {}>> \in DOMAIN hist.lastFold
    /\ "load" \notin DOMAIN Maps.Gauges
    /\ {<<COUNTER, "hits", {}>>, <<COUNTER, "hits", {"t"}>>} \subseteq DOMAIN hist.lastFold
    /\ "hits" \in DOMAIN Maps.Counters
    /\ DOMAIN Maps.Counters["hits"] = {{"t"}}

\* The goroutines inside a critical section of the aggregator's lock: a
\* worker in its fold, the orchestrator in flush, in Reset or at the stamp
\* of a send result.
InCriticalSection ==
    {Worker(w) : w \in {x \in DOMAIN workers : workers[x].pc = "fold"}}
        \cup (IF orch.pc \in {"flushing", "resetting", "stamping"} THEN {Orchestrator} ELSE {})

\* C15: at most one of fold, flush, Reset and the stamp of LastFlush or
\* LastFlushError is inside its critical section at any time, and it holds
\* the aggregator's lock; the maps and the fields of the aggregator change
\* only in a step of the goroutine that holds the lock, which then releases
\* it.
C15_MutualExclusion ==
    /\ [](/\ Cardinality(InCriticalSection) <= 1
          /\ InCriticalSection = IF mutex = Free THEN {} ELSE {mutex})
    /\ [][(a' # a \/ heap'[Live] # heap[Live]) =>
              /\ mutex # Free /\ InCriticalSection = {mutex}
              /\ mutex' = Free]_vars

\* Both workers wait for the lock with a record each while the orchestrator
\* holds it in Reset.
C15_Witness ==
    /\ mutex = Orchestrator /\ orch.pc = "resetting"
    /\ \A w \in DOMAIN workers : workers[w].pc = "lock"
    /\ Cardinality(DOMAIN workers) > 1

\* The n smallest samples of a bag, in ascending order.
RECURSIVE Smallest(_, _)
Smallest(bag, n) ==
    IF n = 0 THEN <<>>
    ELSE LET v == Least(BagToSet(bag))
         IN  <<v>> \o Smallest(bag (-) SetToBag({v}), n - 1)

\* The squares of a sequence of samples.
Squares(seq) == [i \in DOMAIN seq |-> RMul(seq[i], seq[i])]

\* The keys of the fields of threshold pct.
FieldsOf(pct) ==
    {prefix \o SPct(pct) : prefix \in {"count_", "mean_", "sum_", "sum_squares_", "upper_", "lower_"}}

\* C16: for a timer of count > 1 samples and a threshold P > 0, with
\* n = floor(P/100 * count + 0.5): when n = 0 the snapshot carries no field
\* of P; otherwise it carries count_P = n, upper_P = the n-th smallest
\* sample, sum_P = the sum of the n smallest samples, sum_squares_P = the
\* sum of their squares and mean_P = sum_P / n, whatever thresholds come
\* before P.
C16_UpperThreshold ==
    hist.flushes > 0 =>
        \A k \in DOMAIN hist.last.window.Timers : \A i \in DOMAIN a.PercentThresholds :
            LET pct == a.PercentThresholds[i]
                bag == hist.last.window.Timers[k]
                count == BagCardinality(bag)
                timer == RecordOf(hist.last.view.Timers, k)
                n == Floor(RAdd(RMul(RDiv(pct, F(100)), F(count)), <<1, 2>>))
                least == Smallest(bag, n)
            IN  (count > 1 /\ RLess(F(0), pct)) =>
                    IF n = 0
                    THEN FieldsOf(pct) \cap DOMAIN timer.Percentiles = {}
                    ELSE /\ Emits(timer, "count_" \o SPct(pct), F(n))
                         /\ Emits(timer, "upper_" \o SPct(pct), least[n])
                         /\ Emits(timer, "sum_" \o SPct(pct), SumSeq(least))
                         /\ Emits(timer, "sum_squares_" \o SPct(pct), SumSeq(Squares(least)))
                         /\ Emits(timer, "mean_" \o SPct(pct), RDiv(SumSeq(least), F(n)))

\* A flush has returned a timer of four samples under the thresholds 50,
\* -50 and 20: 50 selects two samples and 20, after them, one.
C16_Witness ==
    /\ hist.flushes > 0
    /\ a.PercentThresholds = <<F(50), F(-50), F(20)>>
    /\ RtSeries \in DOMAIN hist.last.window.Timers
    /\ BagCardinality(hist.last.window.Timers[RtSeries]) = 4
    /\ Emits(RecordOf(hist.last.view.Timers, RtSeries), "count_50", F(2))
    /\ Emits(RecordOf(hist.last.view.Timers, RtSeries), "count_20", F(1))
    /\ Emits(RecordOf(hist.last.view.Timers, RtSeries), "upper_20", F(1))

\* The thresholds of the specified range: -100 < P <= 100.
InThresholdRange(pct) == RLess(F(-100), pct) /\ ~RLess(F(100), pct)

\* C18: under thresholds P with -100 < P <= 100, flush of a timer of any
\* count >= 1 reads the sorted samples and the prefix sums only at indices
\* in 0..count-1: no finalization panics, flush returns its snapshot and
\* the lock is released.
C18_NoIndexOutOfRange ==
    (\A i \in DOMAIN a.PercentThresholds : InThresholdRange(a.PercentThresholds[i])) =>
        /\ hist.panics = {}
        /\ ~crashed

\* A timer of two samples has been flushed under the thresholds 20 and 50:
\* 20 selects no sample and has no field.
C16_NoneSelected ==
    /\ hist.flushes > 0
    /\ a.PercentThresholds = <<F(20), F(50)>>
    /\ RtSeries \in DOMAIN hist.last.window.Timers
    /\ BagCardinality(hist.last.window.Timers[RtSeries]) = 2
    /\ FieldsOf(F(20)) \cap DOMAIN RecordOf(hist.last.view.Timers, RtSeries).Percentiles = {}

\* The keys of the fields flush emits for a timer of count samples under
\* the thresholds: five per threshold that selects at least one sample.
EmittedFields(count, thresholds) ==
    UNION {LET pct == thresholds[i]
               n == IF count > 1
                    THEN Floor(RAdd(RMul(RDiv(RAbs(pct), F(100)), F(count)), <<1, 2>>))
                    ELSE count
           IN  IF n = 0 THEN {}
               ELSE {prefix \o SPct(pct) :
                        prefix \in {"count_", "mean_", "sum_", "sum_squares_",
                                    IF RLess(F(0), pct) THEN "upper_" ELSE "lower_"}} :
           i \in DOMAIN thresholds}

\* The samples series k received in the window win.
SampleCount(win, k) == IF k \in DOMAIN win.Timers THEN BagCardinality(win.Timers[k]) ELSE 0

RECURSIVE TimerFields(_, _, _)
\* 9 + the number of emitted fields, summed over the series that received
\* samples in the window win.
TimerFields(series, win, thresholds) ==
    IF series = {} THEN 0
    ELSE LET k == CHOOSE x \in series : TRUE
         IN  (IF SampleCount(win, k) > 0
              THEN 9 + Cardinality(EmittedFields(SampleCount(win, k), thresholds))
              ELSE 0)
             + TimerFields(series \ {k}, win, thresholds)

\* C17: the num_stats of a snapshot is 2 per counter series + 1 per gauge
\* series + 1 per set series + 9 + the number of emitted percentile fields
\* per timer series that received a sample in the window, a timer without
\* samples adding nothing; and once Reset has run, the aggregator's own
\* num_stats is 0.
C17_NumStats ==
    /\ hist.flushes > 0 =>
          hist.last.view.NumStats =
              2 * Cardinality(Series(hist.last.view.Counters))
              + Cardinality(Series(hist.last.view.Gauges))
              + Cardinality(Series(hist.last.view.Sets))
              + TimerFields(Series(hist.last.view.Timers), hist.last.window,
                            a.PercentThresholds)
    /\ hist.resets > 0 => a.NumStats = 0

\* The second flush has returned a counter, a gauge and a timer that
\* survived a Reset, the timer without a sample since: num_stats is 3, and
\* it was 17 at the first flush.
C17_Witness ==
    /\ hist.flushes = 2 /\ hist.resets = 1
    /\ Series(hist.last.view.Counters) # {} /\ Series(hist.last.view.Gauges) # {}
    /\ RtSeries \in Series(hist.last.view.Timers)
    /\ SampleCount(hist.last.window, RtSeries) = 0
    /\ hist.last.view.NumStats = 3
    /\ a.Stats.NumStats = 3 /\ a.NumStats = 0

\* C19: under an expiry, a counter, timer or set series that a Reset at
\* time T1 has kept is not evicted by the following Reset at time T2 when
\* T2 - T1 <= expiry_interval, whether or not it was folded in between.
C19_AnchoredAtLastReset ==
    [][(IsReset /\ a.ExpiryInterval # 0 /\ hist.resets > 0
            /\ hist'.resetNow - hist.resetNow <= a.ExpiryInterval) =>
          \A x \in AllSeries(heap[Live]) :
              (x[1] # GAUGE /\ hist.born[x] = ZeroTime) => x \in AllSeries(heap'[Live])]_vars

\* The send goroutine of tick n for sender i has its result to hand over,
\* an error or none.
HasResult(n, i, err) ==
    \E t \in tasks : t.tick = n /\ t.i = i /\ t.pc = "result" /\ t.err = err

\* The orchestrator has stamped field for the result of tick n, sender i.
Stamped(n, i, field) ==
    <<n, i>> \in DOMAIN hist.stamps /\ hist.stamps[<<n, i>>] = field

\* C20: under fair scheduling nothing deadlocks. Every send goroutine whose
\* SendMetrics has returned hands its result to the orchestrator, which
\* then stamps LastFlush for a success and LastFlushError for a failure;
\* the flush timer keeps firing: the first tick comes, and whenever the
\* timer is armed for a time the run's clock reaches, its flush, Reset and
\* dispatch follow (up to the MaxFlushes ticks of a run); and a worker that
\* has taken a record gets the lock and folds it, so that the queue drains.
C20_Progress ==
    /\ <>(hist.flushes >= 1 /\ Dispatched(1))
    /\ \A n \in 1..MaxFlushes :
          (hist.flushes = n - 1 /\ orch.pc = "select" /\ orch.deadline <= horizon)
              ~> (hist.flushes >= n /\ Dispatched(n))
    /\ \A n \in 1..MaxFlushes :
          /\ HasResult(n, 1, FALSE) ~> Stamped(n, 1, "LastFlush")
          /\ HasResult(n, 1, TRUE) ~> Stamped(n, 1, "LastFlushError")
    /\ (\E w \in DOMAIN workers : workers[w].pc # "recv")
          ~> (\A w \in DOMAIN workers : workers[w].pc = "recv")
    /\ (MetricQueue # <<>>) ~> (MetricQueue = <<>>)

\* Two ticks are done, the failed send of the first and the successful
\* send of the second are stamped, and the records of the queue are folded.
C20_Witness ==
    /\ hist.flushes >= 2 /\ Dispatched(2)
    /\ Stamped(1, 1, "LastFlushError") /\ Stamped(2, 1, "LastFlush")
    /\ a.Stats.LastFlushError # ZeroTime /\ a.Stats.LastFlush # ZeroTime
    /\ hist.delivered = MaxMetrics /\ MetricQueue = <<>>
    /\ \A w \in DOMAIN workers : workers[w].pc = "recv"

====
